---------------------------- MODULE Spec2Model ----------------------------
(***************************************************************************)
(* Model of the TRP backend-for-frontend:                                  *)
(*   src/api/v1/endpoints/properties.py  (filter builder, MLS client,      *)
(*                                        transformer, bounded fan-out)    *)
(*   src/api/v1/endpoints/cart.py        (cart passthrough)                *)
(*   src/api/v1/endpoints/wishlist.py    (wishlist passthrough)            *)
(***************************************************************************)
EXTENDS Integers, Sequences, FiniteSets, TLC

VARIABLES
    \* ---- properties.py: module state and requests in flight
    MLS_CONFIGURED,   \* properties.py:31
    catalogue,        \* the listings the upstream MLS holds (environment)
    semaphore,        \* properties.py:37, the free permits of the semaphore
    waiters,          \* the FIFO of units blocked in "async with semaphore"
    lpc,              \* per GET /properties request: position of the handler
    top,              \* per GET /properties request: its limit, sent as $top
    mls_properties,   \* per GET /properties request: the raw listings fetched
    upc,              \* per request, per unit: position of get_transformed_property
    results,          \* per request, per unit: what the unit returned or raised
    media,            \* per request, per unit: how its media fetch ended
    lresponse,        \* per GET /properties request: the HTTP response
    lupstream,        \* per GET /properties request: how its listing call ended
    spc,              \* per GET /properties/{id} request: position of the handler
    sid,              \* per GET /properties/{id} request: the property_id
    sprop,            \* per GET /properties/{id} request: mls_properties[0]
    sresponse,        \* per GET /properties/{id} request: the HTTP response
    supstream,        \* per GET /properties/{id} request: how its listing call ended
    \* ---- cart.py / wishlist.py: the row store and the last handler call
    table,            \* the row store's tables "cart" and "wishlist"
    lastCall,         \* the last cart/wishlist handler call and its outcome
    \* ---- pure functions under test
    fArgs, fOut,      \* build_filter_str: arguments and return value
    tArgs, tOut       \* transform_property: arguments and return value

fanVars   == <<MLS_CONFIGURED, catalogue, semaphore, waiters, lpc, top, mls_properties,
               upc, results, media, lresponse, lupstream, spc, sid, sprop, sresponse,
               supstream>>
storeVars == <<table, lastCall>>
pureVars  == <<fArgs, fOut, tArgs, tOut>>
vars      == <<fanVars, storeVars, pureVars>>

-----------------------------------------------------------------------------
(***************************************************************************)
(* Python values.  A JSON value of a raw listing is tagged by its type so  *)
(* that values of different types can be told apart.                       *)
(***************************************************************************)
S(s)  == [str |-> s]          \* a str
I(n)  == [int |-> n]          \* an int
Fl(t) == [flt |-> t]          \* a float, in tenths: Fl(25) is 2.5
None  == [null |-> TRUE]      \* None / JSON null

IsStr(v) == "str" \in DOMAIN v
IsInt(v) == "int" \in DOMAIN v
IsFlt(v) == "flt" \in DOMAIN v

\* Python truthiness, as used by "if x", "x or y" and filter(None, ...)
Truthy(v) ==
    IF v = None THEN FALSE
    ELSE IF IsStr(v) THEN v.str # ""
    ELSE IF IsInt(v) THEN v.int # 0
    ELSE IF IsFlt(v) THEN v.flt # 0
    ELSE TRUE

\* Python "a or b"
Or(a, b) == IF Truthy(a) THEN a ELSE b

\* dict.get(key, default)
Get(d, key, default) == IF key \in DOMAIN d THEN d[key] ELSE default

\* The strings int() parses, with their values; int() of any other str
\* raises ValueError ("2.5" and "N/A" alike).
IntLiterals == [s \in {"0", "1", "2", "3", " 4 ", "-1"} |->
                  CASE s = "0" -> 0 [] s = "1" -> 1 [] s = "2" -> 2
                    [] s = "3" -> 3 [] s = " 4 " -> 4 [] s = "-1" -> 0 - 1]

Raised(kind) == [raised |-> kind]
IsRaised(r)  == "raised" \in DOMAIN r

\* Python int(v): an int as it is, a float truncated toward zero, a str parsed
PyInt(v) ==
    IF IsInt(v) THEN [value |-> v.int]
    ELSE IF IsFlt(v) THEN
        [value |-> IF v.flt >= 0 THEN v.flt \div 10 ELSE 0 - ((0 - v.flt) \div 10)]
    ELSE IF IsStr(v) THEN
        IF v.str \in DOMAIN IntLiterals THEN [value |-> IntLiterals[v.str]]
        ELSE Raised("ValueError")
    ELSE Raised("TypeError")

\* Python str.format of a value inside an f-string
Fmt(v) ==
    IF IsStr(v) THEN v.str
    ELSE IF IsInt(v) THEN ToString(v.int)
    ELSE IF IsFlt(v) THEN ToString(v.flt \div 10) \o "." \o ToString(v.flt % 10)
    ELSE "None"

RECURSIVE Join(_, _)
\* sep.join(parts), parts a sequence of strings
Join(parts, sep) ==
    IF parts = <<>> THEN ""
    ELSE IF Len(parts) = 1 THEN parts[1]
    ELSE parts[1] \o sep \o Join(Tail(parts), sep)

Range(f) == {f[i] : i \in DOMAIN f}

-----------------------------------------------------------------------------
(***************************************************************************)
(* properties.py: build_filter_str                                         *)
(***************************************************************************)
BasePredicates ==
    << "PropertyType eq 'Residential Freehold'",
       "RentalApplicationYN eq true",
       "OriginatingSystemName eq 'Toronto Regional Real Estate Board'" >>

\* [c] when the condition holds, [] otherwise: one "if ...: filters.append(c)"
AppendIf(cond, clause) == IF cond THEN <<clause>> ELSE <<>>

\* build_filter_str with a slip: the bounds tested by truthiness, like city
build_filter_str_truthy(city, min_price, max_price, min_beds, max_beds, min_baths, max_baths, property_type) ==
    Join(BasePredicates
         \o AppendIf(Truthy(city), "contains(City, '" \o Fmt(city) \o "')")
         \o AppendIf(Truthy(min_price), "ListPrice ge " \o Fmt(min_price))
         \o AppendIf(Truthy(max_price), "ListPrice le " \o Fmt(max_price))
         \o AppendIf(Truthy(min_beds), "BedroomsTotal ge " \o Fmt(min_beds))
         \o AppendIf(Truthy(max_beds), "BedroomsTotal le " \o Fmt(max_beds))
         \o AppendIf(Truthy(min_baths), "BathroomsTotalInteger ge " \o Fmt(min_baths))
         \o AppendIf(Truthy(max_baths), "BathroomsTotalInteger le " \o Fmt(max_baths)),
         " and ")

build_filter_str(city, min_price, max_price, min_beds, max_beds, min_baths, max_baths, property_type) ==
    Join(BasePredicates
         \o AppendIf(Truthy(city), "contains(City, '" \o Fmt(city) \o "')")
         \o AppendIf(min_price # None, "ListPrice ge " \o Fmt(min_price))
         \o AppendIf(max_price # None, "ListPrice le " \o Fmt(max_price))
         \o AppendIf(min_beds # None, "BedroomsTotal ge " \o Fmt(min_beds))
         \o AppendIf(max_beds # None, "BedroomsTotal le " \o Fmt(max_beds))
         \o AppendIf(min_baths # None, "BathroomsTotalInteger ge " \o Fmt(min_baths))
         \o AppendIf(max_baths # None, "BathroomsTotalInteger le " \o Fmt(max_baths)),
         " and ")

-----------------------------------------------------------------------------
(***************************************************************************)
(* properties.py: fetch_largest_media, transform_property                  *)
(***************************************************************************)
\* What the GET on the Media resource came to: a decoded JSON envelope, or
\* an exception (raise_for_status, a timeout, a transport error).
HttpOk(envelope) == [ok |-> TRUE, json |-> envelope]
HttpFail(kind)   == [ok |-> FALSE, error |-> kind]

\* raise_for_status on a non-success response: the exception carries the
\* response, with its status code and its body
HTTPStatusError(status_code, text) ==
    [ok |-> FALSE, error |-> "HTTPStatusError", status_code |-> status_code, text |-> text]

\* [f(x) for x in seq if p(x)] for the MediaURL of media items
RECURSIVE MediaURLs(_)
MediaURLs(items) ==
    IF items = <<>> THEN <<>>
    ELSE (IF Truthy(Get(items[1], "MediaURL", None))
            THEN <<Get(items[1], "MediaURL", S("")).str>>
            ELSE <<>>)
         \o MediaURLs(Tail(items))

\* fetch_largest_media: the list it returns, given MLS_CONFIGURED and the
\* outcome of its one outbound call (not made when MLS is not configured)
fetch_largest_media(configured, outcome) ==
    IF ~configured THEN <<>>
    ELSE IF ~outcome.ok THEN <<>>
    ELSE MediaURLs(Get(outcome.json, "value", <<>>))

\* The address parts that filter(None, address_parts) keeps
RECURSIVE FilterTruthy(_)
FilterTruthy(parts) ==
    IF parts = <<>> THEN <<>>
    ELSE (IF Truthy(parts[1]) THEN <<parts[1]>> ELSE <<>>) \o FilterTruthy(Tail(parts))

\* ", ".join(...) raises TypeError on an item that is not a str
AddressStr(mls_property) ==
    LET parts == << Get(mls_property, "PropertyAddress", S("")),
                    Get(mls_property, "City", S("")),
                    Get(mls_property, "StateOrProvince", S("")),
                    Get(mls_property, "PostalCode", S("")),
                    Or(Get(mls_property, "Country", S("")), S("CA")) >>
        kept  == FilterTruthy(parts)
    IN  IF \E i \in DOMAIN kept : ~IsStr(kept[i]) THEN Raised("TypeError")
        ELSE [value |-> Join([i \in DOMAIN kept |-> kept[i].str], ", ")]

\* int(mls_property.get(key, 0) or 0)
IntField(mls_property, key) == PyInt(Or(Get(mls_property, key, I(0)), I(0)))

\* media_urls is NoImages when the argument is not supplied (None)
NoImages    == [none |-> TRUE]
Images(seq) == [list |-> seq]

\* transform_property: the PropertyView it returns, or the exception it raises
transform_property(mls_property, media_urls) ==
    LET urls    == IF media_urls = NoImages THEN <<>> ELSE media_urls.list
        address == AddressStr(mls_property)
        beds    == IntField(mls_property, "BedroomsTotal")
        baths   == IntField(mls_property, "BathroomsTotalInteger")
        parking == IntField(mls_property, "ParkingTotal")
    IN  IF IsRaised(address) THEN address
        ELSE IF IsRaised(beds) THEN beds
        ELSE IF IsRaised(baths) THEN baths
        ELSE IF IsRaised(parking) THEN parking
        ELSE [ id            |-> Get(mls_property, "ListingKey", S("")),
               images        |-> urls,
               price         |-> Get(mls_property, "ListPrice", S("")),
               address       |-> address.value,
               added         |-> Get(mls_property, "ListingContractDate", S("")),
               beds          |-> beds.value,
               baths         |-> baths.value,
               parking       |-> parking.value,
               sqft          |-> Get(mls_property, "LivingArea", S("")),
               location      |-> Get(mls_property, "City", S("")),
               areaCode      |-> Get(mls_property, "Area", S("")),
               propertyType  |-> Get(mls_property, "PropertyType", S("")),
               availableDate |-> Get(mls_property, "AvailableDate", S("")),
               leaseTerms    |-> Get(mls_property, "LeaseTerm", S("")),
               description   |-> Or(Or(Get(mls_property, "PublicRemarks", S("")),
                                       Get(mls_property, "PrivateRemarks", S(""))),
                                    S("")) ]

IsView(r) == "id" \in DOMAIN r

-----------------------------------------------------------------------------
(***************************************************************************)
(* cart.py, wishlist.py: the handlers and the row store they call          *)
(***************************************************************************)
Users     == {"u1", "u2"}
Props     == {"p1", "p2"}
Resources == {"cart", "wishlist"}

\* The most rows a table of the row store holds in the model
MaxRows == 2

HTTPException(status_code, detail) == [http_error |-> status_code, detail |-> detail]
IsHTTPException(r) == "http_error" \in DOMAIN r

\* A PostgREST filter "col=eq.v&..." holds of a row when every column agrees
Matches(row, filter) == \A col \in DOMAIN filter : row[col] = filter[col]

\* add_to_cart: the JSON body of the POST
CartAddPayload(user_id, property_id) == [user_id |-> user_id, property_id |-> property_id]

\* add_to_wishlist: the JSON body of the POST
WishlistAddPayload(user_id, property_id) == [user_id |-> user_id, property_id |-> property_id]

\* The query string of the DELETE with the user left out
RemoveQueryNoUser(user_id, property_id) == [property_id |-> property_id]

\* remove_from_cart: the query string of the DELETE,
\* user_id=eq.{user_id}&property_id=eq.{property_id}
CartRemoveQuery(user_id, property_id) == [user_id |-> user_id, property_id |-> property_id]

\* remove_from_wishlist: the query string of the DELETE
WishlistRemoveQuery(user_id, property_id) == [user_id |-> user_id, property_id |-> property_id]

\* list_cart: the query string of the GET, user_id=eq.{user_id}
CartListQuery(user_id) == [user_id |-> user_id]

\* list_wishlist: the query string of the GET
WishlistListQuery(user_id) == [user_id |-> user_id]

\* The row store's answers.  (user_id, property_id) is unique in a table:
\* the insert of a pair already stored is answered 409 and stores nothing.
StoreInsert(rows, row) ==
    IF \E i \in DOMAIN rows : rows[i] = row
      THEN [status |-> 409, rows |-> rows, text |-> "duplicate key"]
      ELSE [status |-> 201, rows |-> Append(rows, row), text |-> ""]

\* The delete of the rows a filter matches is answered 204, matching or not
StoreDelete(rows, filter) ==
    [status |-> 204, rows |-> SelectSeq(rows, LAMBDA row : ~Matches(row, filter)), text |-> ""]

\* The store refusing a call (an expired bearer token, the store down)
StoreRefusals == {401, 503}
StoreRefuse(rows, status) == [status |-> status, rows |-> rows, text |-> "refused"]

\* [entry["property_id"] for entry in rows]
PropertyIds(rows) == [i \in DOMAIN rows |-> rows[i].property_id]

OkBody == [ok |-> TRUE]

\* add_to_cart, from the store's response on
add_to_cart(resp) ==
    IF resp.status \in {201, 200} THEN OkBody
    ELSE IF resp.status = 409 THEN [ok |-> TRUE, message |-> "Already in cart"]
    ELSE HTTPException(resp.status, resp.text)

\* add_to_wishlist, from the store's response on
add_to_wishlist(resp) ==
    IF resp.status \notin {201, 200} THEN HTTPException(resp.status, resp.text)
    ELSE OkBody

\* remove_from_cart, from the store's response on
remove_from_cart(resp) ==
    IF resp.status \notin {204, 200} THEN HTTPException(resp.status, resp.text)
    ELSE OkBody

\* remove_from_wishlist, from the store's response on
remove_from_wishlist(resp) ==
    IF resp.status \notin {204, 200} THEN HTTPException(resp.status, resp.text)
    ELSE OkBody

\* list_cart without the validation of user isolation
list_cart_unvalidated(user_id, status, text, rows) ==
    IF status # 200 THEN HTTPException(status, text)
    ELSE [cart |-> PropertyIds(rows), user_id |-> user_id, count |-> Len(PropertyIds(rows))]

\* list_cart, from the store's response (status, text, decoded rows) on
list_cart(user_id, status, text, rows) ==
    IF status # 200 THEN HTTPException(status, text)
    ELSE IF \E i \in DOMAIN rows : rows[i].user_id # user_id
      THEN HTTPException(500, "Data integrity error: cart contains items from other users")
    ELSE [cart |-> PropertyIds(rows), user_id |-> user_id, count |-> Len(PropertyIds(rows))]

\* list_wishlist, from the store's response (status, text, decoded rows) on
list_wishlist(user_id, status, text, rows) ==
    IF status # 200 THEN HTTPException(status, text)
    ELSE [wishlist |-> PropertyIds(rows), user_id |-> user_id, count |-> Len(PropertyIds(rows))]

NoCall == [op |-> "none", resource |-> "none", user_id |-> "", property_id |-> "",
           status |-> 0, rows |-> <<>>, before |-> <<>>, result |-> OkBody]

\* The record of a handler call: its arguments, the store's status and rows,
\* the table before the call, and what the handler returned or raised
Call(op, resource, user_id, property_id, status, rows, result) ==
    [op |-> op, resource |-> resource, user_id |-> user_id, property_id |-> property_id,
     status |-> status, rows |-> rows, before |-> table, result |-> result]

\* POST /{resource}/{property_id}: the handler up to its return, the store's
\* insert included
Add(resource, user_id, property_id) ==
    \E resp \in {StoreInsert(table[resource],
                    IF resource = "cart" THEN CartAddPayload(user_id, property_id)
                                         ELSE WishlistAddPayload(user_id, property_id))}
                \cup {StoreRefuse(table[resource], st) : st \in StoreRefusals} :
        /\ Len(resp.rows) <= MaxRows
        /\ table' = [table EXCEPT ![resource] = resp.rows]
        /\ lastCall' = Call("add", resource, user_id, property_id, resp.status, <<>>,
                            IF resource = "cart" THEN add_to_cart(resp)
                                                 ELSE add_to_wishlist(resp))

AddToCart     == \E u \in Users, p \in Props : Add("cart", u, p) /\ UNCHANGED <<fanVars, pureVars>>
AddToWishlist == \E u \in Users, p \in Props : Add("wishlist", u, p) /\ UNCHANGED <<fanVars, pureVars>>

\* DELETE /{resource}/{property_id}: the handler up to its return, the
\* store's delete included
Remove(resource, user_id, property_id) ==
    \E resp \in {StoreDelete(table[resource],
                    IF resource = "cart" THEN CartRemoveQuery(user_id, property_id)
                                         ELSE WishlistRemoveQuery(user_id, property_id))}
                \cup {StoreRefuse(table[resource], st) : st \in StoreRefusals} :
        /\ table' = [table EXCEPT ![resource] = resp.rows]
        /\ lastCall' = Call("remove", resource, user_id, property_id, resp.status, <<>>,
                            IF resource = "cart" THEN remove_from_cart(resp)
                                                 ELSE remove_from_wishlist(resp))

RemoveFromCart     == \E u \in Users, p \in Props : Remove("cart", u, p) /\ UNCHANGED <<fanVars, pureVars>>
RemoveFromWishlist == \E u \in Users, p \in Props : Remove("wishlist", u, p) /\ UNCHANGED <<fanVars, pureVars>>

\* GET /{resource}/: the handler up to its return.  The store answers 200
\* with the rows of the user; a store whose row-level security is broken
\* also returns the rows of the users in leak.
List(resource, user_id) ==
    \E leak \in SUBSET (Users \ {user_id}), status \in {200} \cup StoreRefusals :
        LET query == IF resource = "cart" THEN CartListQuery(user_id)
                                          ELSE WishlistListQuery(user_id)
            rows == IF status = 200
                      THEN SelectSeq(table[resource],
                             LAMBDA row : Matches(row, query) \/ row.user_id \in leak)
                      ELSE <<>>
            text == IF status = 200 THEN "" ELSE "refused"
        IN  /\ status # 200 => leak = {}
            /\ table' = table
            /\ lastCall' = Call("list", resource, user_id, "", status, rows,
                                IF resource = "cart" THEN list_cart(user_id, status, text, rows)
                                                     ELSE list_wishlist(user_id, status, text, rows))

ListCart     == \E u \in Users : List("cart", u) /\ UNCHANGED <<fanVars, pureVars>>
ListWishlist == \E u \in Users : List("wishlist", u) /\ UNCHANGED <<fanVars, pureVars>>

-----------------------------------------------------------------------------
(***************************************************************************)
(* properties.py: GET /properties (get_properties, get_transformed_property)*)
(* and GET /properties/{id} (get_property_by_id)                            *)
(***************************************************************************)
CONCURRENCY_LIMIT == 4

\* Bounds of the model: the list requests and the single lookups served
\* concurrently, and the sum of the limits ($top) the list requests ask for
NumListRequests == 2
NumLookups      == 1
MaxTotalLimit   == 5

ListReqs   == 1..NumListRequests
LookupReqs == 1..NumLookups

\* Raw listings as the upstream returns them
Keyed(key) == [ListingKey |-> S(key), PropertyAddress |-> S("1 Main St"), City |-> S("Toronto"),
               ListPrice |-> I(2500), BedroomsTotal |-> I(3), ParkingTotal |-> Fl(10)]
NoKey      == [City |-> S("Toronto"), BedroomsTotal |-> I(1)]
EmptyKey   == [ListingKey |-> S(""), City |-> S("Toronto")]
NullKey    == [ListingKey |-> None, City |-> S("Toronto")]
BadBeds    == [ListingKey |-> S("K9"), City |-> S("Toronto"), BedroomsTotal |-> S("N/A")]

\* What the upstream holds, in the order it returns it
Catalogues ==
    { << Keyed("K1"), Keyed("K2"), Keyed("K3"), Keyed("K4"), Keyed("K5"), Keyed("K6"),
         Keyed("K7") >>,
      << Keyed("K1"), NoKey, Keyed("K2"), EmptyKey, Keyed("K3"), NullKey >>,
      << Keyed("K1"), BadBeds, Keyed("K2") >> }

LookupIds == {"K1", "K9", "K0"}

\* The media the upstream holds for a listing key: one item has no MediaURL
\* and one an empty MediaURL
MediaItems(key) ==
    << [MediaURL |-> S(key \o "/1.jpg"), Order |-> I(1)],
       [Order |-> I(2)],
       [MediaURL |-> S(""), Order |-> I(3)],
       [MediaURL |-> S(key \o "/2.jpg"), Order |-> I(4)] >>

\* The ways the GET on the Media resource can end
MediaOutcomes(key) ==
    { HttpOk([value |-> MediaItems(key)]), HttpFail("HTTPStatusError"), HttpFail("TimeoutException") }

\* The ways the GET on the Property resource can end, for a $top of n
Prefix(seq, n) == SubSeq(seq, 1, IF n < Len(seq) THEN n ELSE Len(seq))
ListingOutcomes(n) ==
    { HttpOk([value |-> Prefix(catalogue, n)]), HttpOk([value |-> <<>>]), HttpOk(<<>>),
      HTTPStatusError(429, "Too Many Requests") }
LookupOutcomes(id) ==
    { HttpOk([value |-> SelectSeq(catalogue, LAMBDA l : Get(l, "ListingKey", None) = S(id))]),
      HTTPStatusError(429, "Too Many Requests"), HttpFail("TimeoutException") }

\* How an outbound call ended, without the payload: not made, answered with
\* a success status, or failed
NotCalled == [called |-> FALSE]
Ended(outcome) == IF outcome.ok THEN [called |-> TRUE, ok |-> TRUE]
                  ELSE [called |-> TRUE] @@ outcome

\* fetch_mls_data: the list it returns or the exception it raises
fetch_mls_data(configured, outcome) ==
    IF ~configured THEN HTTPException(503, "MLS API not configured.")
    ELSE IF ~outcome.ok THEN Raised(outcome.error)
    ELSE [value |-> Get(outcome.json, "value", <<>>)]

\* The limits of the list requests that have started
RECURSIVE SumTop(_)
SumTop(rs) ==
    IF rs = {} THEN 0
    ELSE LET r == CHOOSE x \in rs : TRUE
         IN  (IF lpc[r] = "idle" THEN 0 ELSE top[r]) + SumTop(rs \ {r})

\* The event loop runs the first step of every task gather created, in the
\* order of the tasks, before it handles the next I/O event
TasksToStart(r) == {i \in DOMAIN upc[r] : upc[r][i] = "start"}
ReadyQueueEmpty == \A r \in ListReqs : TasksToStart(r) = {}

Pending    == [pending |-> TRUE]
IsPending(r) == "pending" \in DOMAIN r
Ok200(body) == [status |-> 200, body |-> body]

\* get_properties up to "await fetch_mls_data(url)": the filter and the url
\* are built, and an unconfigured MLS raises 503 before any outbound call
ListStart(r) ==
    /\ lpc[r] = "idle"
    /\ ReadyQueueEmpty
    /\ \E limit \in 1..(MaxTotalLimit - SumTop(ListReqs)) :
         /\ top' = [top EXCEPT ![r] = limit]
         /\ IF ~MLS_CONFIGURED
              THEN /\ lpc' = [lpc EXCEPT ![r] = "done"]
                   /\ lresponse' = [lresponse EXCEPT ![r] = fetch_mls_data(MLS_CONFIGURED, HttpOk(<<>>))]
              ELSE /\ lpc' = [lpc EXCEPT ![r] = "fetch_mls"]
                   /\ UNCHANGED lresponse
    /\ UNCHANGED <<MLS_CONFIGURED, catalogue, lupstream, supstream, semaphore, waiters, mls_properties,
                   upc, results, media,
                   spc, sid, sprop, sresponse, storeVars, pureVars>>

\* get_properties from the return of fetch_mls_data to "await gather(*tasks)"
ListingsReturn(r) ==
    /\ lpc[r] = "fetch_mls"
    /\ ReadyQueueEmpty
    /\ \E outcome \in ListingOutcomes(top[r]) :
         LET got == fetch_mls_data(MLS_CONFIGURED, outcome) IN
         /\ lupstream' = [lupstream EXCEPT ![r] = Ended(outcome)]
         /\ IF IsRaised(got)
              THEN /\ lpc' = [lpc EXCEPT ![r] = "done"]
                   /\ lresponse' = [lresponse EXCEPT ![r] =
                                      HTTPException(500, "Error fetching properties: " \o got.raised)]
                   /\ UNCHANGED <<mls_properties, upc, results, media>>
              ELSE IF got.value = <<>>
              THEN /\ lpc' = [lpc EXCEPT ![r] = "done"]
                   /\ lresponse' = [lresponse EXCEPT ![r] = Ok200(<<>>)]
                   /\ UNCHANGED <<mls_properties, upc, results, media>>
              ELSE /\ lpc' = [lpc EXCEPT ![r] = "gather"]
                   /\ mls_properties' = [mls_properties EXCEPT ![r] = got.value]
                   /\ upc' = [upc EXCEPT ![r] = [i \in DOMAIN got.value |-> "start"]]
                   /\ results' = [results EXCEPT ![r] = [i \in DOMAIN got.value |-> Pending]]
                   /\ media' = [media EXCEPT ![r] = [i \in DOMAIN got.value |-> "none"]]
                   /\ UNCHANGED lresponse
    /\ UNCHANGED <<MLS_CONFIGURED, catalogue, supstream, semaphore, waiters, top,
                   spc, sid, sprop, sresponse, storeVars, pureVars>>

\* The unit from "async with semaphore" exited to its return: the permit is
\* released and the transformer runs on what the media fetch returned
UnitFinish(r, i, media_urls, how) ==
    /\ upc' = [upc EXCEPT ![r][i] = "done"]
    /\ results' = [results EXCEPT ![r][i] = transform_property(mls_properties[r][i], Images(media_urls))]
    /\ media' = [media EXCEPT ![r][i] = how]

\* get_transformed_property without "async with semaphore"
UnitStartUngated(r, i) ==
    /\ lpc[r] \in {"gather", "done"}
    /\ i \in DOMAIN upc[r]
    /\ upc[r][i] = "start"
    /\ \A j \in TasksToStart(r) : i <= j
    /\ IF ~Truthy(Get(mls_properties[r][i], "ListingKey", None))
         THEN /\ upc' = [upc EXCEPT ![r][i] = "done"]
              /\ results' = [results EXCEPT ![r][i] = None]
         ELSE /\ upc' = [upc EXCEPT ![r][i] = "fetching"]
              /\ UNCHANGED results
    /\ UNCHANGED <<MLS_CONFIGURED, catalogue, lupstream, supstream, semaphore, waiters, lpc, top, mls_properties, media,
                   lresponse, spc, sid, sprop, sresponse, storeVars, pureVars>>

\* get_transformed_property from its start to its first suspension: a listing
\* without a key returns None; otherwise the unit takes a permit and starts
\* its media fetch, or queues for a permit
UnitStart(r, i) ==
    /\ lpc[r] \in {"gather", "done"}
    /\ i \in DOMAIN upc[r]
    /\ upc[r][i] = "start"
    /\ \A j \in TasksToStart(r) : i <= j
    /\ IF ~Truthy(Get(mls_properties[r][i], "ListingKey", None))
         THEN /\ upc' = [upc EXCEPT ![r][i] = "done"]
              /\ results' = [results EXCEPT ![r][i] = None]
              /\ UNCHANGED <<semaphore, waiters, media>>
         ELSE IF semaphore > 0 /\ waiters = <<>>
         THEN IF MLS_CONFIGURED
                THEN /\ semaphore' = semaphore - 1
                     /\ upc' = [upc EXCEPT ![r][i] = "fetching"]
                     /\ UNCHANGED <<results, media, waiters>>
                ELSE /\ UnitFinish(r, i, fetch_largest_media(MLS_CONFIGURED, HttpOk(<<>>)), "failed")
                     /\ UNCHANGED <<semaphore, waiters>>
         ELSE /\ upc' = [upc EXCEPT ![r][i] = "waiting"]
              /\ waiters' = Append(waiters, <<r, i>>)
              /\ UNCHANGED <<semaphore, results, media>>
    /\ UNCHANGED <<MLS_CONFIGURED, catalogue, lupstream, supstream, lpc, top, mls_properties,
                   lresponse, spc, sid, sprop, sresponse, storeVars, pureVars>>

\* A queued unit, first in the queue, takes a permit that was released and
\* starts its media fetch
UnitAcquire(r, i) ==
    /\ ReadyQueueEmpty
    /\ waiters # <<>>
    /\ Head(waiters) = <<r, i>>
    /\ semaphore > 0
    /\ semaphore' = semaphore - 1
    /\ waiters' = Tail(waiters)
    /\ upc' = [upc EXCEPT ![r][i] = "fetching"]
    /\ UNCHANGED <<MLS_CONFIGURED, catalogue, lupstream, supstream, lpc, top, mls_properties, results, media,
                   lresponse, spc, sid, sprop, sresponse, storeVars, pureVars>>

\* get_transformed_property from the return of fetch_largest_media to its own
\* return: the media fetch succeeds or fails, the permit is released, the
\* transformer runs
UnitFetchReturn(r, i) ==
    /\ ReadyQueueEmpty
    /\ i \in DOMAIN upc[r]
    /\ upc[r][i] = "fetching"
    /\ \E outcome \in MediaOutcomes(mls_properties[r][i].ListingKey.str) :
         UnitFinish(r, i, fetch_largest_media(MLS_CONFIGURED, outcome),
                    IF outcome.ok THEN "ok" ELSE "failed")
    /\ semaphore' = semaphore + 1
    /\ UNCHANGED <<MLS_CONFIGURED, catalogue, lupstream, supstream, waiters, lpc, top, mls_properties,
                   lresponse, spc, sid, sprop, sresponse, storeVars, pureVars>>

\* [result for result in results if result is not None]
RECURSIVE NotNone(_)
NotNone(rs) ==
    IF rs = <<>> THEN <<>>
    ELSE (IF rs[1] = None THEN <<>> ELSE <<rs[1]>>) \o NotNone(Tail(rs))

\* get_properties from the return of gather to its own return.  gather
\* returns the units' results in the order of the tasks once all are done;
\* it raises the exception of a unit as soon as one raises, and the handler
\* turns that into a 500.
GatherReturn(r) ==
    /\ lpc[r] = "gather"
    /\ ReadyQueueEmpty
    /\ \/ \E i \in DOMAIN results[r] : IsRaised(results[r][i])
       \/ \A i \in DOMAIN upc[r] : upc[r][i] = "done"
    /\ lpc' = [lpc EXCEPT ![r] = "done"]
    /\ lresponse' = [lresponse EXCEPT ![r] =
         IF \E i \in DOMAIN results[r] : IsRaised(results[r][i])
           THEN LET i == CHOOSE j \in DOMAIN results[r] : IsRaised(results[r][j])
                IN  HTTPException(500, "Error fetching properties: " \o results[r][i].raised)
           ELSE Ok200(NotNone(results[r]))]
    /\ UNCHANGED <<MLS_CONFIGURED, catalogue, lupstream, supstream, semaphore, waiters, top, mls_properties, upc, results,
                   media, spc, sid, sprop, sresponse, storeVars, pureVars>>

\* get_property_by_id up to "await fetch_mls_data(url)"
LookupStart(s) ==
    /\ spc[s] = "idle"
    /\ ReadyQueueEmpty
    /\ \E id \in LookupIds :
         /\ sid' = [sid EXCEPT ![s] = id]
         /\ IF ~MLS_CONFIGURED
              THEN /\ spc' = [spc EXCEPT ![s] = "done"]
                   /\ sresponse' = [sresponse EXCEPT ![s] = fetch_mls_data(MLS_CONFIGURED, HttpOk(<<>>))]
              ELSE /\ spc' = [spc EXCEPT ![s] = "fetch_mls"]
                   /\ UNCHANGED sresponse
    /\ UNCHANGED <<MLS_CONFIGURED, catalogue, lupstream, supstream, semaphore, waiters, lpc, top, mls_properties, upc,
                   results, media, lresponse, sprop, storeVars, pureVars>>

\* What get_property_by_id returns for what transform_property came to:
\* "except Exception" turns an exception into a body {"error": ...}
LookupBody(view) ==
    IF IsRaised(view) THEN Ok200([error |-> "Error fetching property: " \o view.raised])
    ELSE Ok200(view)

\* get_property_by_id from the return of fetch_mls_data to
\* "await fetch_largest_media(property_id)", which takes no permit
LookupListingReturn(s) ==
    /\ spc[s] = "fetch_mls"
    /\ ReadyQueueEmpty
    /\ \E outcome \in LookupOutcomes(sid[s]) :
         LET got == fetch_mls_data(MLS_CONFIGURED, outcome) IN
         /\ supstream' = [supstream EXCEPT ![s] = Ended(outcome)]
         /\ IF IsRaised(got)
              THEN /\ spc' = [spc EXCEPT ![s] = "done"]
                   /\ sresponse' = [sresponse EXCEPT ![s] = LookupBody(got)]
                   /\ UNCHANGED sprop
              ELSE IF got.value = <<>>
              THEN /\ spc' = [spc EXCEPT ![s] = "done"]
                   /\ sresponse' = [sresponse EXCEPT ![s] = Ok200([error |-> "Property not found"])]
                   /\ UNCHANGED sprop
              ELSE /\ sprop' = [sprop EXCEPT ![s] = got.value[1]]
                   /\ IF MLS_CONFIGURED
                        THEN /\ spc' = [spc EXCEPT ![s] = "fetch_media"]
                             /\ UNCHANGED sresponse
                        ELSE /\ spc' = [spc EXCEPT ![s] = "done"]
                             /\ sresponse' = [sresponse EXCEPT ![s] =
                                  LookupBody(transform_property(got.value[1],
                                    Images(fetch_largest_media(MLS_CONFIGURED, HttpOk(<<>>)))))]
    /\ UNCHANGED <<MLS_CONFIGURED, catalogue, lupstream, semaphore, waiters, lpc, top, mls_properties, upc,
                   results, media, lresponse, sid, storeVars, pureVars>>

\* get_property_by_id from the return of fetch_largest_media to its own return
LookupMediaReturn(s) ==
    /\ spc[s] = "fetch_media"
    /\ ReadyQueueEmpty
    /\ \E outcome \in MediaOutcomes(sid[s]) :
         /\ spc' = [spc EXCEPT ![s] = "done"]
         /\ sresponse' = [sresponse EXCEPT ![s] =
              LookupBody(transform_property(sprop[s],
                           Images(fetch_largest_media(MLS_CONFIGURED, outcome))))]
    /\ UNCHANGED <<MLS_CONFIGURED, catalogue, lupstream, supstream, semaphore, waiters, lpc, top, mls_properties, upc,
                   results, media, lresponse, sid, sprop, storeVars, pureVars>>

\* The media fetches in flight: those of the fan-out units, and all of them
UnitsFetching ==
    UNION {{<<r, i>> : i \in {j \in DOMAIN upc[r] : upc[r][j] = "fetching"}} : r \in ListReqs}
LookupsFetching == {s \in LookupReqs : spc[s] = "fetch_media"}
UnitFetchesInFlight == Cardinality(UnitsFetching)
MediaFetchesInFlight == Cardinality(UnitsFetching) + Cardinality(LookupsFetching)

-----------------------------------------------------------------------------
(***************************************************************************)
(* Calls of the pure functions                                             *)
(***************************************************************************)
Absent == [absent |-> TRUE]

\* The search criteria a request can carry
FilterInputs ==
    [ city          : {None, S(""), S("Toronto")},
      min_price     : {None, Fl(0), Fl(15005)},
      max_price     : {None, Fl(0), Fl(30000)},
      min_beds      : {None, I(0), I(2)},
      max_beds      : {None, I(0), I(4)},
      min_baths     : {None, I(0), I(1)},
      max_baths     : {None, I(0), I(3)},
      property_type : {None, S("Condo")} ]

CallBuildFilter ==
    /\ IsPending(fOut)
    /\ fOut' = [value |-> build_filter_str(fArgs.city, fArgs.min_price, fArgs.max_price,
                                           fArgs.min_beds, fArgs.max_beds,
                                           fArgs.min_baths, fArgs.max_baths,
                                           fArgs.property_type)]
    /\ UNCHANGED <<fArgs, tArgs, tOut, fanVars, storeVars>>

\* The raw listings a call of transform_property can be given: every field
\* absent or holding one of a few values of each JSON type
CountValues   == {Absent, None, I(0), I(3), Fl(25), S("2"), S(""), S("N/A")}
TransformKeys == {"ListingKey", "BedroomsTotal", "BathroomsTotalInteger", "ParkingTotal",
                  "PropertyAddress"}
TransformChoices ==
    [ ListingKey            : {Absent, None, S("K1")},
      BedroomsTotal         : CountValues,
      BathroomsTotalInteger : CountValues,
      ParkingTotal          : CountValues,
      PropertyAddress       : {Absent, S("1 Main St"), S("")} ]
Mapping(choice) == [k \in {f \in TransformKeys : choice[f] # Absent} |-> choice[k]]
TransformInputs ==
    [ mls_property : {Mapping(c) : c \in TransformChoices},
      media_urls   : {NoImages, Images(<<>>), Images(<<"K1/1.jpg">>)} ]

CallTransform ==
    /\ IsPending(tOut)
    /\ tOut' = transform_property(tArgs.mls_property, tArgs.media_urls)
    /\ UNCHANGED <<tArgs, fArgs, fOut, fanVars, storeVars>>

-----------------------------------------------------------------------------
(***************************************************************************)
(* Specifications                                                          *)
(***************************************************************************)
FanIdle ==
    /\ semaphore = CONCURRENCY_LIMIT
    /\ waiters = <<>>
    /\ lpc = [r \in ListReqs |-> "idle"]
    /\ top = [r \in ListReqs |-> 0]
    /\ mls_properties = [r \in ListReqs |-> <<>>]
    /\ upc = [r \in ListReqs |-> <<>>]
    /\ results = [r \in ListReqs |-> <<>>]
    /\ media = [r \in ListReqs |-> <<>>]
    /\ lresponse = [r \in ListReqs |-> Pending]
    /\ lupstream = [r \in ListReqs |-> NotCalled]
    /\ spc = [s \in LookupReqs |-> "idle"]
    /\ sid = [s \in LookupReqs |-> ""]
    /\ sprop = [s \in LookupReqs |-> <<>>]
    /\ sresponse = [s \in LookupReqs |-> Pending]
    /\ supstream = [s \in LookupReqs |-> NotCalled]
StoreIdle ==
    /\ table = [res \in Resources |-> <<>>]
    /\ lastCall = NoCall
PureIdle ==
    /\ fArgs = [city |-> None, min_price |-> None, max_price |-> None, min_beds |-> None,
                max_beds |-> None, min_baths |-> None, max_baths |-> None,
                property_type |-> None]
    /\ fOut = Pending
    /\ tArgs = [mls_property |-> <<>>, media_urls |-> NoImages]
    /\ tOut = Pending

\* The properties endpoints: the process after import, serving list requests
\* concurrently
Init ==
    /\ MLS_CONFIGURED \in BOOLEAN
    /\ catalogue \in Catalogues
    /\ FanIdle /\ StoreIdle /\ PureIdle

Next ==
    \/ \E r \in ListReqs : ListStart(r)
    \/ \E r \in ListReqs : ListingsReturn(r)
    \/ \E r \in ListReqs : \E i \in DOMAIN upc[r] : UnitStart(r, i)
    \/ \E r \in ListReqs : \E i \in DOMAIN upc[r] : UnitAcquire(r, i)
    \/ \E r \in ListReqs : \E i \in DOMAIN upc[r] : UnitFetchReturn(r, i)
    \/ \E r \in ListReqs : GatherReturn(r)

Spec == Init /\ [][Next]_vars

\* The same under fair scheduling: the event loop runs every task that is
\* ready (the first step of a unit, a queued unit woken by a release, the
\* handler woken by gather), and every outbound call returns or fails, at
\* the latest on its timeout (REQUEST_TIMEOUT).  No request has to arrive.
\* Every media fetch returns or fails: weak fairness of the return of a
\* media fetch, with the condition that enables it written out
FetchReturns == \E r \in ListReqs : \E i \in DOMAIN upc[r] : UnitFetchReturn(r, i)
FetchCanReturn == ReadyQueueEmpty /\ UnitsFetching # {}
FetchCanReturnIsEnabled == FetchCanReturn <=> ENABLED <<FetchReturns>>_vars
EveryFetchReturns == []<>(~FetchCanReturn) \/ []<><<FetchReturns>>_vars

Fairness ==
    /\ WF_vars(\E r \in ListReqs : ListingsReturn(r))
    /\ WF_vars(\E r \in ListReqs : \E i \in DOMAIN upc[r] : UnitStart(r, i))
    /\ WF_vars(\E r \in ListReqs : \E i \in DOMAIN upc[r] : UnitAcquire(r, i))
    /\ EveryFetchReturns
    /\ WF_vars(\E r \in ListReqs : GatherReturn(r))

FairSpec == Init /\ [][Next]_vars /\ Fairness

\* The same process serving single lookups as well
NextLookups ==
    \/ \E r \in ListReqs : ListStart(r)
    \/ \E r \in ListReqs : ListingsReturn(r)
    \/ \E r \in ListReqs : \E i \in DOMAIN upc[r] : UnitStart(r, i)
    \/ \E r \in ListReqs : \E i \in DOMAIN upc[r] : UnitAcquire(r, i)
    \/ \E r \in ListReqs : \E i \in DOMAIN upc[r] : UnitFetchReturn(r, i)
    \/ \E r \in ListReqs : GatherReturn(r)
    \/ \E s \in LookupReqs : LookupStart(s)
    \/ \E s \in LookupReqs : LookupListingReturn(s)
    \/ \E s \in LookupReqs : LookupMediaReturn(s)

SpecLookups == Init /\ [][NextLookups]_vars

\* The cart and wishlist endpoints against the row store
InitStore ==
    /\ MLS_CONFIGURED = FALSE
    /\ catalogue = <<>>
    /\ FanIdle /\ StoreIdle /\ PureIdle

NextStore ==
    \/ AddToCart
    \/ AddToWishlist
    \/ RemoveFromCart
    \/ RemoveFromWishlist
    \/ ListCart
    \/ ListWishlist

SpecStore == InitStore /\ [][NextStore]_vars

\* build_filter_str called on every combination of criteria
InitFilter ==
    /\ MLS_CONFIGURED = FALSE
    /\ catalogue = <<>>
    /\ FanIdle /\ StoreIdle
    /\ fArgs \in FilterInputs
    /\ fOut = Pending
    /\ tArgs = [mls_property |-> <<>>, media_urls |-> NoImages]
    /\ tOut = Pending

NextFilter == CallBuildFilter

SpecFilter == InitFilter /\ [][NextFilter]_vars

\* transform_property called on every raw listing and images argument
InitTransform ==
    /\ MLS_CONFIGURED = FALSE
    /\ catalogue = <<>>
    /\ FanIdle /\ StoreIdle
    /\ fArgs = [city |-> None, min_price |-> None, max_price |-> None, min_beds |-> None,
                max_beds |-> None, min_baths |-> None, max_baths |-> None,
                property_type |-> None]
    /\ fOut = Pending
    /\ tArgs \in TransformInputs
    /\ tOut = Pending

NextTransform == CallTransform

SpecTransform == InitTransform /\ [][NextTransform]_vars

-----------------------------------------------------------------------------
(***************************************************************************)
(* Properties                                                              *)
(***************************************************************************)
IsOk200(resp) == "status" \in DOMAIN resp /\ resp.status = 200
HasKey(listing) == Truthy(Get(listing, "ListingKey", None))
Fetching(r) == {i \in DOMAIN upc[r] : upc[r][i] = "fetching"}

\* C1: during the fan-out of GET /properties, whatever the batch size and
\* the interleaving, and with several list requests fanning out at once, at
\* most CONCURRENCY_LIMIT media fetches started by the units are in flight.
C1_FanOutCap == UnitFetchesInFlight <= CONCURRENCY_LIMIT

\* C1 witness: two list requests fan out at once, their units hold all four
\* permits between them, and a further unit is queued for one.
C1_Witness ==
    /\ UnitFetchesInFlight = CONCURRENCY_LIMIT
    /\ waiters # <<>>
    /\ \E r1, r2 \in ListReqs : r1 # r2 /\ Fetching(r1) # {} /\ Fetching(r2) # {}

\* C2: in every reachable state, with list requests and single lookups served
\* together, at most CONCURRENCY_LIMIT media fetches are in flight in the
\* process.
C2_ProcessWideCap == MediaFetchesInFlight <= CONCURRENCY_LIMIT

\* The listing keys of the listings that have one, in the order of the input
RECURSIVE KeysInOrder(_)
KeysInOrder(listings) ==
    IF listings = <<>> THEN <<>>
    ELSE (IF HasKey(listings[1]) THEN <<listings[1].ListingKey>> ELSE <<>>)
         \o KeysInOrder(Tail(listings))

\* C3: for every list of raw listings the listing query returns and every
\* completion order of the media fetches, get_properties returns exactly one
\* PropertyView per listing that has a non-empty ListingKey, in the order of
\* the input; a listing without a key yields no record and no media fetch.
InputOrderKept(r) ==
    /\ IsOk200(lresponse[r])
    /\ [i \in DOMAIN lresponse[r].body |-> lresponse[r].body[i].id]
         = KeysInOrder(mls_properties[r])
    /\ \A i \in DOMAIN mls_properties[r] :
         ~HasKey(mls_properties[r][i]) => media[r][i] = "none"
C3_InputOrder ==
    \A r \in ListReqs :
        (lpc[r] = "done" /\ mls_properties[r] # <<>>) => InputOrderKept(r)

\* What remains of C3 in the code: the same of the requests none of whose
\* units raised in the transformer.
NoUnitRaised(r) == \A i \in DOMAIN results[r] : ~IsRaised(results[r][i])
InputOrderUnlessRaised ==
    \A r \in ListReqs :
        (lpc[r] = "done" /\ mls_properties[r] # <<>> /\ NoUnitRaised(r)) => InputOrderKept(r)

\* C4: for a batch of N listings that all have keys and any subset of them
\* whose media fetch fails, get_properties still returns N entries; those of
\* the failed fetches have images = [], the others their fetched image URLs.
AllEntriesReturned(r) ==
    /\ IsOk200(lresponse[r])
    /\ Len(lresponse[r].body) = Len(mls_properties[r])
    /\ \A i \in DOMAIN mls_properties[r] :
         /\ media[r][i] \in {"ok", "failed"}
         /\ media[r][i] = "failed" => lresponse[r].body[i].images = <<>>
         /\ media[r][i] = "ok" =>
              lresponse[r].body[i].images
                = << mls_properties[r][i].ListingKey.str \o "/1.jpg",
                     mls_properties[r][i].ListingKey.str \o "/2.jpg" >>
AllKeyed(r) == \A i \in DOMAIN mls_properties[r] : HasKey(mls_properties[r][i])
C4_MediaFailureTolerated ==
    \A r \in ListReqs :
        (lpc[r] = "done" /\ mls_properties[r] # <<>> /\ AllKeyed(r)) => AllEntriesReturned(r)

\* What remains of C4 in the code: the same of the requests none of whose
\* units raised in the transformer.
MediaFailureToleratedUnlessRaised ==
    \A r \in ListReqs :
        (lpc[r] = "done" /\ mls_properties[r] # <<>> /\ AllKeyed(r) /\ NoUnitRaised(r))
            => AllEntriesReturned(r)

ForeignRows(call) == {i \in DOMAIN call.rows : call.rows[i].user_id # call.user_id}

\* C5: when the store answers list_cart with status 200, a returned row of
\* another user makes list_cart raise a 500 and return no property ids;
\* otherwise it returns the property_id of every returned row, in order, the
\* user id and the number of rows.
C5_CartIsolation ==
    (lastCall.op = "list" /\ lastCall.resource = "cart" /\ lastCall.status = 200) =>
        IF ForeignRows(lastCall) # {}
          THEN /\ IsHTTPException(lastCall.result)
               /\ lastCall.result.http_error = 500
               /\ "cart" \notin DOMAIN lastCall.result
          ELSE /\ ~IsHTTPException(lastCall.result)
               /\ lastCall.result.cart = [i \in DOMAIN lastCall.rows |-> lastCall.rows[i].property_id]
               /\ lastCall.result.user_id = lastCall.user_id
               /\ lastCall.result.count = Len(lastCall.rows)

\* C5 witness: the store returned a row of the caller and a row of another
\* user, and list_cart raised the integrity error.
C5_Witness ==
    /\ lastCall.op = "list" /\ lastCall.resource = "cart" /\ lastCall.status = 200
    /\ ForeignRows(lastCall) # {}
    /\ ForeignRows(lastCall) # DOMAIN lastCall.rows
    /\ IsHTTPException(lastCall.result)

\* C6: when the store returns to list_wishlist a row of another user,
\* list_wishlist raises a 500; no response of it carries a property id taken
\* from a row of another user.
C6_WishlistIsolation ==
    (/\ lastCall.op = "list" /\ lastCall.resource = "wishlist" /\ lastCall.status = 200
     /\ ForeignRows(lastCall) # {}) =>
        /\ IsHTTPException(lastCall.result)
        /\ lastCall.result.http_error = 500

Stored(rows, user_id, property_id) ==
    {i \in DOMAIN rows : rows[i].user_id = user_id /\ rows[i].property_id = property_id}

\* C7: an add, for cart and for wishlist, that the store answers with 201/200
\* or, the pair being stored already, with 409 returns ok: true, marked as
\* already present on a 409, never an error; the store holds the pair once.
C7_AddIdempotent ==
    (lastCall.op = "add" /\ lastCall.status \in {200, 201, 409}) =>
        /\ ~IsHTTPException(lastCall.result)
        /\ lastCall.result.ok
        /\ lastCall.status = 409 => "message" \in DOMAIN lastCall.result
        /\ Cardinality(Stored(table[lastCall.resource], lastCall.user_id,
                              lastCall.property_id)) = 1

\* The rows of a table other than those of one user and property
Others(rows, user_id, property_id) ==
    SelectSeq(rows, LAMBDA row : row.user_id # user_id \/ row.property_id # property_id)

\* C8: a remove, for cart and for wishlist, that the store answers with
\* 204/200 returns ok: true whether or not the pair was stored, deletes the
\* rows of exactly that user and property, leaves every other row as it was,
\* and leaves the store unchanged when the pair was not stored (a second
\* remove).
C8_RemoveIdempotent ==
    (lastCall.op = "remove" /\ lastCall.status \in {204, 200}) =>
        /\ lastCall.result = OkBody
        /\ table[lastCall.resource]
             = Others(lastCall.before[lastCall.resource], lastCall.user_id, lastCall.property_id)
        /\ \A res \in Resources \ {lastCall.resource} : table[res] = lastCall.before[res]
        /\ Stored(lastCall.before[lastCall.resource], lastCall.user_id, lastCall.property_id) = {}
             => table = lastCall.before

\* C8 witness: a remove deleted the stored pair of one user while another
\* user's row for the same property stayed.
C8_Witness ==
    /\ lastCall.op = "remove" /\ lastCall.status = 204 /\ lastCall.result = OkBody
    /\ Stored(lastCall.before[lastCall.resource], lastCall.user_id, lastCall.property_id) # {}
    /\ \E i \in DOMAIN table[lastCall.resource] :
         /\ table[lastCall.resource][i].property_id = lastCall.property_id
         /\ table[lastCall.resource][i].user_id # lastCall.user_id

\* The clause of one criterion
ClauseOf(name, v) ==
    CASE name = "city"      -> "contains(City, '" \o Fmt(v) \o "')"
      [] name = "min_price" -> "ListPrice ge " \o Fmt(v)
      [] name = "max_price" -> "ListPrice le " \o Fmt(v)
      [] name = "min_beds"  -> "BedroomsTotal ge " \o Fmt(v)
      [] name = "max_beds"  -> "BedroomsTotal le " \o Fmt(v)
      [] name = "min_baths" -> "BathroomsTotalInteger ge " \o Fmt(v)
      [] name = "max_baths" -> "BathroomsTotalInteger le " \o Fmt(v)
FieldOrder == <<"city", "min_price", "max_price", "min_beds", "max_beds", "min_baths", "max_baths">>

\* The base predicates, then one clause per criterion in present, in the
\* fixed order, joined by " and "
RECURSIVE ClausesFrom(_, _, _)
ClausesFrom(k, args, present) ==
    IF k > Len(FieldOrder) THEN <<>>
    ELSE (IF FieldOrder[k] \in present THEN <<ClauseOf(FieldOrder[k], args[FieldOrder[k]])>>
                                       ELSE <<>>)
         \o ClausesFrom(k + 1, args, present)
ExpectedFilter(args, present) == Join(BasePredicates \o ClausesFrom(1, args, present), " and ")

\* C9 as stated: one clause per criterion that is present (not None), none
\* per absent criterion, in the fixed order after the three base predicates.
C9_OneClausePerCriterion ==
    ~IsPending(fOut) =>
        fOut.value = ExpectedFilter(fArgs, {f \in Range(FieldOrder) : fArgs[f] # None})

\* C9 amended: as stated, with a city counting as present only when it is a
\* non-empty string; a bound equal to 0 counts as present.
C9_OneClausePerCriterionNonEmptyCity ==
    ~IsPending(fOut) =>
        fOut.value = ExpectedFilter(fArgs,
                        {f \in Range(FieldOrder) : fArgs[f] # None /\ (f = "city" => fArgs[f] # S(""))})

\* C9 witness: a call with an empty city and a minimum price of 0 returned
\* the base predicates and the one clause of the price.
C9_Witness ==
    /\ fArgs.city = S("") /\ fArgs.min_price = Fl(0)
    /\ \A f \in Range(FieldOrder) \ {"city", "min_price"} : fArgs[f] = None
    /\ ~IsPending(fOut)
    /\ fOut.value = Join(BasePredicates \o <<"ListPrice ge 0.0">>, " and ")

\* A count int() makes a number of: an int, a float, a str of digits
Numeric(v) == IsInt(v) \/ IsFlt(v) \/ (IsStr(v) /\ v.str \in DOMAIN IntLiterals)

\* C10: transform_property returns a PropertyView for every raw listing and
\* images argument, never raising; beds, baths and parking are 0 when their
\* source value is missing or not numeric, id is the listing key, and images
\* is a list, empty when none is supplied.
C10_TransformTotal ==
    ~IsPending(tOut) =>
        /\ IsView(tOut)
        /\ \A f \in {"BedroomsTotal", "BathroomsTotalInteger", "ParkingTotal"} :
             (f \notin DOMAIN tArgs.mls_property \/ ~Numeric(tArgs.mls_property[f])) =>
                 (CASE f = "BedroomsTotal" -> tOut.beds
                    [] f = "BathroomsTotalInteger" -> tOut.baths
                    [] f = "ParkingTotal" -> tOut.parking) = 0
        /\ tOut.id = Get(tArgs.mls_property, "ListingKey", S(""))
        /\ tArgs.media_urls = NoImages => tOut.images = <<>>

\* A listing call that was made and failed: a non-success status, a timeout
UpstreamFailed(up) == up.called /\ ~up.ok
IsViewBody(resp) == IsOk200(resp) /\ "error" \notin DOMAIN resp.body

\* A request with MLS not configured fails with 503 and makes no listing call
Answers503(up, resp) ==
    /\ ~up.called
    /\ IsHTTPException(resp)
    /\ resp.http_error = 503

\* A request whose listing call failed fails with an error that carries the
\* status code and the body of the upstream's response when there is one, and
\* that is no generic 500 when there is none
AnswersUpstreamError(up, resp) ==
    /\ IsHTTPException(resp)
    /\ IF "status_code" \in DOMAIN up
         THEN resp.http_error = up.status_code /\ resp.detail = up.text
         ELSE resp.http_error # 500

ListingFailureTyped(up, resp) ==
    /\ ~MLS_CONFIGURED => Answers503(up, resp)
    /\ UpstreamFailed(up) => AnswersUpstreamError(up, resp)

\* C11: GET /properties and GET /properties/{id} with MLS not configured
\* fail with 503 without an outbound call; when the listing call returns a
\* non-success status S, times out or fails in transport, the request fails
\* with an upstream error carrying S and the body, not a generic 500 and not
\* a 200, and returns no listing data.
C11_ListingFailuresTyped ==
    /\ \A r \in ListReqs : lpc[r] = "done" => ListingFailureTyped(lupstream[r], lresponse[r])
    /\ \A s \in LookupReqs : spc[s] = "done" => ListingFailureTyped(supstream[s], sresponse[s])

\* What remains of C11 in the code: not configured, both handlers answer 503
\* without a listing call; a failed listing call returns no listing data.
UnconfiguredAnswers503 ==
    /\ \A r \in ListReqs : (lpc[r] = "done" /\ ~MLS_CONFIGURED) => Answers503(lupstream[r], lresponse[r])
    /\ \A s \in LookupReqs : (spc[s] = "done" /\ ~MLS_CONFIGURED) => Answers503(supstream[s], sresponse[s])
FailedListingReturnsNoData ==
    /\ \A r \in ListReqs : (lpc[r] = "done" /\ UpstreamFailed(lupstream[r])) => ~IsOk200(lresponse[r])
    /\ \A s \in LookupReqs : (spc[s] = "done" /\ UpstreamFailed(supstream[s])) => ~IsViewBody(sresponse[s])

\* The permits held are those of the units inside their media fetch
PermitsHeld == CONCURRENCY_LIMIT - semaphore
PermitAccounting ==
    /\ PermitsHeld = UnitFetchesInFlight
    /\ PermitsHeld \in 0..CONCURRENCY_LIMIT

AllUnitsDone(r) == \A i \in DOMAIN upc[r] : upc[r][i] = "done"
Returned(r) == lpc[r] = "done"

\* When get_properties has returned, all its units have finished, so none of
\* them holds a permit: all permits are free unless another request holds some
PermitsBack(r) ==
    /\ AllUnitsDone(r)
    /\ (\A q \in ListReqs \ {r} : Fetching(q) = {}) => semaphore = CONCURRENCY_LIMIT

\* C12: a unit holds a permit exactly while it is inside its media fetch
\* (permits held = units fetching, between 0 and 4); under fair scheduling,
\* every media fetch returning or failing, every unit of a batch finishes,
\* get_properties returns, and when it has returned the permits of its units
\* are all available again.
C12_NoLeakAndTermination ==
    /\ []PermitAccounting
    /\ \A r \in ListReqs : (lpc[r] = "gather") ~> AllUnitsDone(r)
    /\ \A r \in ListReqs : (lpc[r] \in {"fetch_mls", "gather"}) ~> Returned(r)
    /\ [](\A r \in ListReqs : Returned(r) => PermitsBack(r))

\* What remains of C12 in the code: the accounting of the permits, the
\* termination of every unit and of the handler, and all permits back once
\* every list request has returned.
EveryUnitFinishes == \A r \in ListReqs : (lpc[r] = "gather") ~> AllUnitsDone(r)
EveryRequestReturns == \A r \in ListReqs : (lpc[r] \in {"fetch_mls", "gather"}) ~> Returned(r)
PermitsBackUnlessRaised == \A r \in ListReqs : (Returned(r) /\ NoUnitRaised(r)) => PermitsBack(r)
PermitsBackInTheEnd ==
    (\A r \in ListReqs : lpc[r] \in {"gather", "done"}) ~> [](semaphore = CONCURRENCY_LIMIT)

=============================================================================
